---- MODULE Spec2Model ----
(***************************************************************************)
(* GeoStatsr: the CountryCoder (region catalog, canonical-ID index, point  *)
(* resolver and leveled lookup), the self-update check, the feed crawler    *)
(* and the collection runs of the server, as state machines.               *)
(*                                                                         *)
(* Go strings are TLA+ strings; a character of s is SubSeq(s, i, i).       *)
(* A *geojson.Feature is the 1-based load-order index of the feature in    *)
(* cc.features; the nil pointer is 0.                                      *)
(***************************************************************************)
EXTENDS Integers, Sequences, FiniteSets, TLC

VARIABLES
    collection,      \* the parsed RegionFeatureCollection.Features (input of the load)
    features,        \* cc.features
    featuresByCode,  \* cc.featuresByCode: canonical id -> feature
    pc,              \* "load" | "ready" (NewCountryCoder returned) | "called" | "canon"
    call,            \* the last query made on the coder and its arguments
    ret,             \* what that query returned: a feature, or a string
    canonIn,         \* input string of the canonicalID runs
    canonOut,        \* results of the successive canonicalID applications
    flags,           \* command line of the process: --auto-update, --service; GOOS
    proc,            \* position of the process: "main" | "starting" | "service" | ...
    lastCheck,       \* the last checkAndPerformUpdate call and what it did
    updateLog,       \* steps of performUpdate entered so far, in order
    config,          \* the global Config: NCFA, IsPublic, PrivateKey
    req,             \* the last API request or collector tick taken in, numbered
    runs,            \* the collection runs: position and locals of each
    games,           \* table games: its rows, in insertion order
    rounds,          \* table rounds: its rows, in insertion order
    metadata,        \* table user_metadata: the stored profile
    reported,        \* sum of the new-game counts the finished runs reported
    feed,            \* the pages the feed endpoint serves, in order
    pulled           \* what pullFeed returned

coderVars ==
    <<collection, features, featuresByCode, pc, call, ret, canonIn, canonOut>>

updateVars == <<flags, proc, lastCheck, updateLog>>

serverVars == <<config, req, runs, games, rounds, metadata, reported>>

feedVars == <<feed, pulled>>

vars == <<coderVars, updateVars, serverVars, feedVars>>

\* the parts of the process a specification does not exercise stay empty
UpdateIdle ==
    flags = <<>> /\ proc = "off" /\ lastCheck = <<>> /\ updateLog = <<>>

ServerIdle ==
    /\ config = <<>> /\ req = <<>> /\ runs = <<>>
    /\ games = <<>> /\ rounds = <<>> /\ metadata = <<>> /\ reported = <<>>

FeedIdle == feed = <<>> /\ pulled = <<>>

CoderIdle ==
    /\ collection = <<>> /\ features = <<>> /\ featuresByCode = <<>>
    /\ pc = "off" /\ canonIn = "" /\ canonOut = <<>>

(***************************************************************************)
(* Bounds                                                                  *)
(***************************************************************************)
MaxFeatures == 2     \* features in the input collection
MaxLen == 4          \* length of the generated canonicalID inputs

(***************************************************************************)
(* strings.ToUpper, strings.HasPrefix and the regexp of idFilterRegex      *)
(***************************************************************************)
LowerLetters == "abcdefghijklmnopqrstuvwxyz"
UpperLetters == "ABCDEFGHIJKLMNOPQRSTUVWXYZ"
Digits == "0123456789"

Char(s, i) == SubSeq(s, i, i)

Chars(s) == {Char(s, i) : i \in 1..Len(s)}

LowerChars == Chars(LowerLetters)

UpperChars == Chars(UpperLetters)

UpperOf ==
    [c \in LowerChars |->
        Char(UpperLetters, CHOOSE j \in 1..Len(LowerLetters) : Char(LowerLetters, j) = c)]

LowerOf ==
    [c \in UpperChars |->
        Char(LowerLetters, CHOOSE j \in 1..Len(UpperLetters) : Char(UpperLetters, j) = c)]

ToUpperChar(c) == IF c \in LowerChars THEN UpperOf[c] ELSE c

RECURSIVE ToUpper(_)
ToUpper(s) ==
    IF s = "" THEN "" ELSE ToUpperChar(Head(s)) \o ToUpper(Tail(s))

ToLowerChar(c) == IF c \in UpperChars THEN LowerOf[c] ELSE c

RECURSIVE ToLower(_)
ToLower(s) ==
    IF s = "" THEN "" ELSE ToLowerChar(Head(s)) \o ToLower(Tail(s))

HasPrefix(s, p) == Len(s) >= Len(p) /\ SubSeq(s, 1, Len(p)) = p

\* \w of the regexp: ASCII letters, digits and underscore
WordChars == LowerChars \cup UpperChars \cup Chars(Digits) \cup {"_"}

IsWordChar(c) == c \in WordChars

\* \b before the character at position i (i = Len(s) + 1: at the end of s)
WordBoundary(s, i) ==
    LET before == i > 1 /\ IsWordChar(Char(s, i - 1))
        after  == i <= Len(s) /\ IsWordChar(Char(s, i))
    IN before # after

\* (and|the|of|el|la|de), matched as written: the pattern carries no (?i) flag
StopWords == {"and", "the", "of", "el", "la", "de"}

\* [-_ .,'()&\[\]/]
FilterChars == {"-", "_", " ", ".", ",", "'", "(", ")", "&", "[", "]", "/"}

\* the same alternation under a (?i) flag
StopWordAtAnyCase(s, i, w) ==
    i + Len(w) - 1 <= Len(s) /\ ToLower(SubSeq(s, i, i + Len(w) - 1)) = w

\* the alternation (and|the|of|el|la|de) matches w at position i of s
StopWordAt(s, i, w) ==
    i + Len(w) - 1 <= Len(s) /\ SubSeq(s, i, i + Len(w) - 1) = w

\* length of the match of idFilterRegex that starts at position i; 0 for none
MatchLen(s, i) ==
    IF /\ WordBoundary(s, i)
       /\ \E w \in StopWords : StopWordAt(s, i, w) /\ WordBoundary(s, i + Len(w))
    THEN Len(CHOOSE w \in StopWords :
                 StopWordAt(s, i, w) /\ WordBoundary(s, i + Len(w)))
    ELSE IF Char(s, i) \in FilterChars THEN 1 ELSE 0

\* idFilterRegex.ReplaceAllString(s, ""): leftmost non-overlapping matches
RECURSIVE ReplaceFrom(_, _)
ReplaceFrom(s, i) ==
    IF i > Len(s) THEN ""
    ELSE LET m == MatchLen(s, i)
         IN IF m > 0 THEN ReplaceFrom(s, i + m)
            ELSE Char(s, i) \o ReplaceFrom(s, i + 1)

ReplaceAllString(s) == ReplaceFrom(s, 1)

\* canonicalID without the branch for a leading '.'
canonicalIDNoDot(id) ==
    IF id = "" THEN "" ELSE ToUpper(ReplaceAllString(id))

canonicalID(id) ==
    IF id = "" THEN ""
    ELSE IF HasPrefix(id, ".") THEN ToUpper(id)
    ELSE ToUpper(ReplaceAllString(id))

(***************************************************************************)
(* Inputs of the canonicalID runs                                          *)
(***************************************************************************)
Alphabet == {"d", "e", "D", "E", "-", ".", "_", "+"}

RECURSIVE StringsUpTo(_)
StringsUpTo(n) ==
    IF n = 0 THEN {""}
    ELSE LET P == StringsUpTo(n - 1)
         IN P \cup {s \o c : s \in P, c \in Alphabet}

ExampleIDs ==
    {"The United States", "united-states", "UnitedStates", "United States",
     "Bosnia and Herzegovina", "Isle of Man", "la", "LA", ".la", ".de",
     "Rio de Janeiro", "St. John's", "de_facto", "Congo (Kinshasa)"}

CanonInputs == StringsUpTo(MaxLen) \cup ExampleIDs

(***************************************************************************)
(* Property values of geojson.Feature.Properties (map[string]interface{}): *)
(* a value carries its dynamic Go type, which the type assertions test.    *)
(***************************************************************************)
Str(s) == [t |-> "string", v |-> s]

StrSlice(xs) == [t |-> "[]string", v |-> xs]

\* val.(string)
IsString(val) == val.t = "string"

\* val.([]interface{})
IsInterfaceSlice(val) == val.t = "[]interface {}"

defaultLevels ==
    <<"subterritory", "territory", "subcountryGroup", "country", "sharedLandform",
      "intermediateRegion", "subregion", "region", "subunion", "union",
      "unitedNations", "world">>

\* index in cc.levels, 0-based; -1 when absent
levelIndex(level) ==
    IF \E i \in 1..Len(defaultLevels) : defaultLevels[i] = level
    THEN (CHOOSE i \in 1..Len(defaultLevels) : defaultLevels[i] = level) - 1
    ELSE -1

(***************************************************************************)
(* Geometry.  A JSON value of a coordinate array is a number or something  *)
(* else; parsed points are <<lng, lat>> pairs of integers.                 *)
(***************************************************************************)
Num(n) == [num |-> TRUE, v |-> n]

NotNum == [num |-> FALSE, v |-> 0]

NilGeometry == [kind |-> "nil", point |-> <<>>, polygons |-> <<>>]

\* pointArray has at least two components and the first two are float64
ValidPoint(pointArray) ==
    Len(pointArray) >= 2 /\ pointArray[1].num /\ pointArray[2].num

NonEmpty(xs) == Len(xs) > 0

\* the points a ring of the input yields
coordsToRing(ringArray) ==
    LET valid == SelectSeq(ringArray, ValidPoint)
    IN [i \in 1..Len(valid) |-> <<valid[i][1].v, valid[i][2].v>>]

\* the same conversion keeping the first ring only
coordsToPolygonOuterOnly(coords) ==
    LET rings == SelectSeq([i \in 1..Len(coords) |-> coordsToRing(coords[i])], NonEmpty)
    IN IF rings = <<>> THEN <<>> ELSE <<rings[1]>>

\* orb.Polygon as the sequence of its rings; <<>> for the nil result
coordsToPolygon(coords) ==
    SelectSeq([i \in 1..Len(coords) |-> coordsToRing(coords[i])], NonEmpty)

\* orb.MultiPolygon as the sequence of its polygons; <<>> for the nil result
coordsToMultiPolygon(coords) ==
    SelectSeq([i \in 1..Len(coords) |-> coordsToPolygon(coords[i])], NonEmpty)

\* the geometry NewCountryCoder gives a feature from its raw geometry
ParseGeometry(raw) ==
    IF raw.type = "null" THEN NilGeometry
    ELSE IF raw.type = "Polygon" THEN
        LET polygon == coordsToPolygon(raw.coordinates)
        IN IF polygon # <<>>
           THEN [kind |-> "Polygon", point |-> <<>>, polygons |-> <<polygon>>]
           ELSE NilGeometry
    ELSE IF raw.type = "MultiPolygon" THEN
        LET multiPolygon == coordsToMultiPolygon(raw.coordinates)
        IN IF multiPolygon # <<>>
           THEN [kind |-> "MultiPolygon", point |-> <<>>, polygons |-> multiPolygon]
           ELSE NilGeometry
    ELSE IF raw.type = "Point" THEN
        IF ValidPoint(raw.coordinates)
        THEN [kind |-> "Point",
              point |-> <<raw.coordinates[1].v, raw.coordinates[2].v>>,
              polygons |-> <<>>]
        ELSE NilGeometry
    ELSE NilGeometry

\* p lies on the segment from a to b
OnSegment(p, a, b) ==
    /\ (b[1] - a[1]) * (p[2] - a[2]) = (b[2] - a[2]) * (p[1] - a[1])
    /\ (a[1] <= p[1] /\ p[1] <= b[1]) \/ (b[1] <= p[1] /\ p[1] <= a[1])
    /\ (a[2] <= p[2] /\ p[2] <= b[2]) \/ (b[2] <= p[2] /\ p[2] <= a[2])

\* the ray from p in the direction of growing latitude crosses the segment a-b
RayCrosses(p, a, b) ==
    /\ (a[1] > p[1]) # (b[1] > p[1])
    /\ IF b[1] > a[1]
       THEN (a[2] - p[2]) * (b[1] - a[1]) + (p[1] - a[1]) * (b[2] - a[2]) > 0
       ELSE (a[2] - p[2]) * (b[1] - a[1]) + (p[1] - a[1]) * (b[2] - a[2]) < 0

\* planar.RingContains: even-odd rule, a point on the boundary is inside
RingContains(r, p) ==
    LET n == Len(r)
        next(i) == IF i = n THEN 1 ELSE i + 1
    IN \/ \E i \in 1..n : OnSegment(p, r[i], r[next(i)])
       \/ Cardinality({i \in 1..n : RayCrosses(p, r[i], r[next(i)])}) % 2 = 1

\* planar.PolygonContains: inside the first ring and inside none of the others
PolygonContains(poly, p) ==
    /\ RingContains(poly[1], p)
    /\ \A i \in 2..Len(poly) : ~RingContains(poly[i], p)

\* planar.MultiPolygonContains: inside any of the polygons
MultiPolygonContains(mp, p) ==
    \E i \in 1..Len(mp) : PolygonContains(mp[i], p)

(***************************************************************************)
(* Input features (RegionFeature): the properties block and the raw        *)
(* geometry.  Collections are the sequences of at most MaxFeatures of them.*)
(***************************************************************************)
NoProperties ==
    [ID |-> "", ISO1A2 |-> "", ISO1A3 |-> "", ISO1N3 |-> "", M49 |-> "",
     Wikidata |-> "", EmojiFlag |-> "", CCTLD |-> "", NameEn |-> "",
     Aliases |-> <<>>, Country |-> "", Groups |-> <<>>, Members |-> <<>>,
     Level |-> "", ISOStatus |-> "", DriveSide |-> "", CallingCodes |-> <<>>]

NoRawGeometry == [type |-> "null", coordinates |-> <<>>]

RawPoint(lng, lat) == <<Num(lng), Num(lat)>>

\* the ring of the rectangle with corners (x1, y1) and (x2, y2), closed
RawRect(x1, y1, x2, y2) ==
    <<RawPoint(x1, y1), RawPoint(x2, y1), RawPoint(x2, y2), RawPoint(x1, y2),
      RawPoint(x1, y1)>>

RegionFR ==
    [Type |-> "Feature",
     Properties |-> [NoProperties EXCEPT
        !.ID = "FR", !.ISO1A2 = "FR", !.ISO1A3 = "FRA", !.ISO1N3 = "250",
        !.Wikidata = "Q142", !.CCTLD = ".fr", !.NameEn = "France",
        !.Aliases = <<"Gaul">>, !.Groups = <<"EU", "001">>, !.Level = "country"],
     Geometry |-> [type |-> "Polygon",
                   coordinates |-> <<RawRect(0, 0, 6, 4), RawRect(1, 1, 3, 3)>>]]

RegionEU ==
    [Type |-> "Feature",
     Properties |-> [NoProperties EXCEPT
        !.ID = "EU", !.ISO1A2 = "EU", !.NameEn = "European Union",
        !.Members = <<"FR", "DE">>, !.Level = "union"],
     Geometry |-> NoRawGeometry]

RegionDE ==
    [Type |-> "Feature",
     Properties |-> [NoProperties EXCEPT
        !.ID = "DE", !.ISO1A2 = "DE", !.ISO1A3 = "DEU", !.M49 = "276",
        !.CCTLD = ".de", !.NameEn = "Germany", !.Aliases = <<"Deutschland">>,
        !.Groups = <<"EU">>, !.Level = "country"],
     Geometry |-> [type |-> "MultiPolygon",
                   coordinates |-> << <<RawRect(7, 0, 8, 1)>>,
                                      <<RawRect(7, 3, 8, 4)>> >>]]

RegionFX ==
    [Type |-> "Feature",
     Properties |-> [NoProperties EXCEPT
        !.ID = "FX", !.ISO1A2 = "FX", !.NameEn = "Metropolitan France",
        !.Country = "FR", !.Groups = <<"EU">>, !.Level = "subcountryGroup"],
     Geometry |-> [type |-> "Polygon", coordinates |-> <<RawRect(4, 0, 6, 2)>>]]

RegionWorld ==
    [Type |-> "Feature",
     Properties |-> [NoProperties EXCEPT
        !.ID = "001", !.M49 = "001", !.Wikidata = "Q2", !.NameEn = "World",
        !.Level = "world"],
     Geometry |-> [type |-> "Polygon", coordinates |-> <<RawRect(0, 0, 9, 5)>>]]

RegionIsle ==
    [Type |-> "Feature",
     Properties |-> [NoProperties EXCEPT
        !.ID = "Q9", !.Wikidata = "Q9", !.NameEn = "The Isle of Man",
        !.Groups = <<"EU">>, !.Level = "territory"],
     Geometry |-> [type |-> "Polygon", coordinates |-> <<RawRect(4, 1, 5, 3)>>]]

\* identifiers written in lower case in the data; one point of the ring is not numeric
RegionLA ==
    [Type |-> "Feature",
     Properties |-> [NoProperties EXCEPT
        !.ID = "la", !.ISO1A2 = "la", !.NameEn = "Laos", !.Level = "country"],
     Geometry |-> [type |-> "Polygon",
                   coordinates |-> << <<RawPoint(7, 0), RawPoint(8, 0),
                                        <<NotNum, Num(9)>>, RawPoint(8, 1),
                                        RawPoint(7, 1), RawPoint(7, 0)>> >>]]

RegionVA ==
    [Type |-> "Feature",
     Properties |-> [NoProperties EXCEPT
        !.ID = "VA", !.ISO1A2 = "VA", !.NameEn = "Vatican City",
        !.Level = "country"],
     Geometry |-> [type |-> "Point", coordinates |-> RawPoint(5, 1)]]

\* a grouping without geometry whose id differs from the code FR by case only
RegionFrancophonie ==
    [Type |-> "Feature",
     Properties |-> [NoProperties EXCEPT
        !.ID = "fr", !.Wikidata = "Q1003588", !.NameEn = "Francophonie",
        !.Level = "region"],
     Geometry |-> NoRawGeometry]

\* the outer ring has no numeric point; the second ring of the input is a hole
RegionAtoll ==
    [Type |-> "Feature",
     Properties |-> [NoProperties EXCEPT
        !.ID = "Q42", !.Wikidata = "Q42", !.NameEn = "Atoll",
        !.Country = "FR", !.Level = "territory"],
     Geometry |-> [type |-> "Polygon",
                   coordinates |-> << <<<<NotNum, Num(8)>>, <<Num(8), NotNum>>>>,
                                      RawRect(8, 8, 10, 10) >>]]

Regions ==
    {RegionFR, RegionEU, RegionDE, RegionFX, RegionWorld, RegionIsle, RegionLA,
     RegionVA, RegionFrancophonie, RegionAtoll}

Collections ==
    UNION {[1..n -> Regions] : n \in 0..MaxFeatures}

(***************************************************************************)
(* NewCountryCoder: one feature of the collection per step                 *)
(***************************************************************************)
\* the geojson.Feature built from a RegionFeature
NewFeature(regionFeature) ==
    LET P == regionFeature.Properties
    IN [Type |-> regionFeature.Type,
        Properties |->
           [id |-> Str(P.ID), iso1A2 |-> Str(P.ISO1A2), iso1A3 |-> Str(P.ISO1A3),
            iso1N3 |-> Str(P.ISO1N3), m49 |-> Str(P.M49),
            wikidata |-> Str(P.Wikidata), emojiFlag |-> Str(P.EmojiFlag),
            ccTLD |-> Str(P.CCTLD), nameEn |-> Str(P.NameEn),
            aliases |-> StrSlice(P.Aliases), country |-> Str(P.Country),
            groups |-> StrSlice(P.Groups), members |-> StrSlice(P.Members),
            level |-> Str(P.Level), isoStatus |-> Str(P.ISOStatus),
            driveSide |-> Str(P.DriveSide),
            callingCodes |-> StrSlice(P.CallingCodes)],
        Geometry |-> ParseGeometry(regionFeature.Geometry)]

IDProps ==
    <<"id", "iso1A2", "iso1A3", "iso1N3", "m49", "wikidata", "emojiFlag", "ccTLD",
      "nameEn">>

\* the ids cacheFeatureByIDs collects from the properties of a feature
CollectIDs(feature) ==
    LET strs == SelectSeq(IDProps,
                    LAMBDA prop : /\ IsString(feature.Properties[prop])
                                  /\ feature.Properties[prop].v # "")
        fromProps == [i \in 1..Len(strs) |-> feature.Properties[strs[i]].v]
        aliases == feature.Properties["aliases"]
    IN IF IsInterfaceSlice(aliases) THEN fromProps \o aliases.v ELSE fromProps

\* the same loop without the test cid != ""
RECURSIVE CacheIDsNoGuard(_, _, _, _)
CacheIDsNoGuard(byCode, ids, i, f) ==
    IF i > Len(ids) THEN byCode
    ELSE LET cid == canonicalID(ids[i])
         IN CacheIDsNoGuard([k \in DOMAIN byCode \cup {cid} |->
                                IF k = cid THEN f ELSE byCode[k]], ids, i + 1, f)

\* cc.featuresByCode[cid] = feature for the ids from position i on, in order
RECURSIVE CacheIDs(_, _, _, _)
CacheIDs(byCode, ids, i, f) ==
    IF i > Len(ids) THEN byCode
    ELSE LET cid == canonicalID(ids[i])
         IN IF cid # ""
            THEN CacheIDs([k \in DOMAIN byCode \cup {cid} |->
                              IF k = cid THEN f ELSE byCode[k]], ids, i + 1, f)
            ELSE CacheIDs(byCode, ids, i + 1, f)

\* the index after cacheFeatureByIDs(feature), feature being cc.features[f]
cacheFeatureByIDs(byCode, feature, f) ==
    CacheIDs(byCode, CollectIDs(feature), 1, f)

(***************************************************************************)
(* Queries on the coder (receiver cc: the variables features and           *)
(* featuresByCode)                                                         *)
(***************************************************************************)
\* cc.featuresByCode[cid], nil for a key the map does not hold
MapLookup(cid) ==
    IF cid \in DOMAIN featuresByCode THEN featuresByCode[cid] ELSE 0

FeatureForIDRaw(id) == MapLookup(id)

FeatureForID(id) == MapLookup(canonicalID(id))

\* the same switch with a case that takes a Point equal to pt as containing it
GeometryContainsPoint(geom, pt) ==
    CASE geom.kind = "Polygon" -> PolygonContains(geom.polygons[1], pt)
      [] geom.kind = "MultiPolygon" -> MultiPolygonContains(geom.polygons, pt)
      [] geom.kind = "Point" -> geom.point = pt
      [] OTHER -> FALSE

\* the type switch of SmallestFeature on a non-nil geometry
GeometryContains(geom, pt) ==
    CASE geom.kind = "Polygon" -> PolygonContains(geom.polygons[1], pt)
      [] geom.kind = "MultiPolygon" -> MultiPolygonContains(geom.polygons, pt)
      [] OTHER -> FALSE

\* the loop of SmallestFeature from feature i on
RECURSIVE ScanFeatures(_, _)
ScanFeatures(i, pt) ==
    IF i > Len(features) THEN 0
    ELSE IF features[i].Geometry.kind # "nil"
            /\ GeometryContains(features[i].Geometry, pt)
         THEN i
         ELSE ScanFeatures(i + 1, pt)

\* the same loop run from the last feature down
RECURSIVE ScanFeaturesDown(_, _)
ScanFeaturesDown(i, pt) ==
    IF i < 1 THEN 0
    ELSE IF features[i].Geometry.kind # "nil"
            /\ GeometryContains(features[i].Geometry, pt)
         THEN i
         ELSE ScanFeaturesDown(i - 1, pt)

SmallestFeatureLast(lat, lng) == ScanFeaturesDown(Len(features), <<lng, lat>>)

SmallestFeature(lat, lng) == ScanFeatures(1, <<lng, lat>>)

hasProperty(f, prop) ==
    IF prop \in DOMAIN features[f].Properties
    THEN IF IsString(features[f].Properties[prop])
         THEN features[f].Properties[prop].v # ""
         ELSE TRUE    \* a slice stored in the interface value is never nil
    ELSE FALSE

\* matchesLevel without the test against the max level
matchesLevelNoMax(f, targetLevel, maxLevel) ==
    LET level == features[f].Properties["level"]
    IN IF IsString(level)
       THEN \/ level.v = targetLevel
            \/ levelIndex(level.v) > levelIndex(targetLevel)
       ELSE FALSE

matchesLevel(f, targetLevel, maxLevel) ==
    LET level == features[f].Properties["level"]
    IN IF IsString(level)
       THEN \/ level.v = targetLevel
            \/ /\ levelIndex(level.v) > levelIndex(targetLevel)
               /\ levelIndex(level.v) <= levelIndex(maxLevel)
       ELSE FALSE

countryFeatureIsoFirst(lat, lng) ==
    LET feature == SmallestFeature(lat, lng)
    IN IF feature = 0 THEN 0
       ELSE LET country == features[feature].Properties["country"]
                iso1A2 == features[feature].Properties["iso1A2"]
            IN IF IsString(iso1A2) /\ iso1A2.v # "" THEN FeatureForID(iso1A2.v)
               ELSE IF IsString(country) /\ country.v # ""
                    THEN FeatureForID(country.v)
               ELSE feature

countryFeature(lat, lng) ==
    LET feature == SmallestFeature(lat, lng)
    IN IF feature = 0 THEN 0
       ELSE LET country == features[feature].Properties["country"]
                iso1A2 == features[feature].Properties["iso1A2"]
            IN IF IsString(country) /\ country.v # "" THEN FeatureForID(country.v)
               ELSE IF IsString(iso1A2) /\ iso1A2.v # ""
                    THEN FeatureForID(iso1A2.v)
               ELSE feature

\* the loop over the groups of the smallest feature, from position i on
RECURSIVE WalkGroups(_, _, _, _, _)
WalkGroups(groups, i, targetLevel, maxLevel, withProp) ==
    IF i > Len(groups) THEN 0
    ELSE LET groupFeature == FeatureForID(groups[i])
         IN IF /\ groupFeature # 0
               /\ matchesLevel(groupFeature, targetLevel, maxLevel)
               /\ (withProp = "" \/ hasProperty(groupFeature, withProp))
            THEN groupFeature
            ELSE WalkGroups(groups, i + 1, targetLevel, maxLevel, withProp)

\* featureForLoc after the fast path: the general path
GeneralPath(lat, lng, targetLevel, maxLevel, withProp) ==
    LET smallest == SmallestFeature(lat, lng)
        targetLevelIndex == levelIndex(targetLevel)
        maxLevelIndex == levelIndex(maxLevel)
    IN IF smallest = 0 THEN 0
       ELSE IF \/ targetLevelIndex = -1
               \/ maxLevelIndex = -1
               \/ maxLevelIndex < targetLevelIndex
            THEN 0
       ELSE IF /\ matchesLevel(smallest, targetLevel, maxLevel)
               /\ (withProp = "" \/ hasProperty(smallest, withProp))
            THEN smallest
       ELSE LET groups == features[smallest].Properties["groups"]
            IN IF IsInterfaceSlice(groups)
               THEN WalkGroups(groups.v, 1, targetLevel, maxLevel, withProp)
               ELSE 0

featureForLoc(lat, lng, opts) ==
    LET targetLevel == IF opts.Level = "" THEN "country" ELSE opts.Level
        maxLevel == IF opts.MaxLevel = "" THEN "world" ELSE opts.MaxLevel
        withProp == opts.WithProp
        fast == IF targetLevel = "country" THEN countryFeature(lat, lng) ELSE 0
    IN IF /\ targetLevel = "country"
          /\ fast # 0
          /\ (withProp = "" \/ hasProperty(fast, withProp))
       THEN fast
       ELSE GeneralPath(lat, lng, targetLevel, maxLevel, withProp)

\* opts == nil
NilOpts == [nil |-> TRUE, Level |-> "", MaxLevel |-> "", WithProp |-> ""]

Opts(level, maxLevel, withProp) ==
    [nil |-> FALSE, Level |-> level, MaxLevel |-> maxLevel, WithProp |-> withProp]

\* the query argument of Feature (interface{}): a string or a []float64
StringQuery(id) == [t |-> "string", v |-> id]

CoordQuery(coords) == [t |-> "[]float64", v |-> coords]

\* Feature: an id, or coordinates <<lng, lat, ...>>
Feature(query, opts) ==
    LET o == IF opts.nil THEN Opts("country", "", "") ELSE opts
    IN IF query.t = "string" THEN FeatureForID(query.v)
       ELSE IF Len(query.v) >= 2 THEN featureForLoc(query.v[2], query.v[1], o)
       ELSE 0

\* ISO1A2Code returning the code in lower case, as CodeByLocation does
ISO1A2CodeLower(lat, lng) ==
    LET feature == featureForLoc(lat, lng, Opts("", "", "iso1A2"))
    IN IF feature = 0 THEN ""
       ELSE IF IsString(features[feature].Properties["iso1A2"])
            THEN ToLower(features[feature].Properties["iso1A2"].v)
            ELSE ""

ISO1A2Code(lat, lng) ==
    LET feature == featureForLoc(lat, lng, Opts("", "", "iso1A2"))
    IN IF feature = 0 THEN ""
       ELSE IF IsString(features[feature].Properties["iso1A2"])
            THEN features[feature].Properties["iso1A2"].v
            ELSE ""

NameEn(lat, lng) ==
    LET feature == featureForLoc(lat, lng, Opts("country", "", ""))
    IN IF feature = 0 THEN ""
       ELSE IF IsString(features[feature].Properties["nameEn"])
            THEN features[feature].Properties["nameEn"].v
            ELSE ""

NameEnByCodeRaw(code) ==
    LET feature == FeatureForID(code)
    IN IF feature = 0 THEN code
       ELSE IF IsString(features[feature].Properties["nameEn"])
            THEN features[feature].Properties["nameEn"].v
            ELSE code

NameEnByCode(code) ==
    LET feature == FeatureForID(code)
    IN IF feature = 0 THEN ToUpper(code)
       ELSE IF IsString(features[feature].Properties["nameEn"])
            THEN features[feature].Properties["nameEn"].v
            ELSE ToUpper(code)

getCodeFromFeature(f) ==
    LET country == features[f].Properties["country"]
        nameEn == features[f].Properties["nameEn"]
        iso1A2 == features[f].Properties["iso1A2"]
    IN IF IsString(country) /\ country.v # "" THEN ToLower(country.v)
       ELSE IF IsString(nameEn) /\ nameEn.v # "" THEN ToLower(nameEn.v)
       ELSE IF IsString(iso1A2) /\ iso1A2.v # "" THEN ToLower(iso1A2.v)
       ELSE "??"

CodeByLocationEmpty(lat, lng) ==
    LET code == ISO1A2Code(lat, lng)
        hit == ScanFeatures(1, <<lng, lat>>)
    IN IF code # "" THEN ToLower(code)
       ELSE IF hit # 0 THEN getCodeFromFeature(hit)
       ELSE ""

\* the fallback loop of CodeByLocation is the loop of SmallestFeature
CodeByLocation(lat, lng) ==
    LET code == ISO1A2Code(lat, lng)
        hit == ScanFeatures(1, <<lng, lat>>)
    IN IF code # "" THEN ToLower(code)
       ELSE IF hit # 0 THEN getCodeFromFeature(hit)
       ELSE "??"

(***************************************************************************)
(* Inputs of the queries                                                   *)
(***************************************************************************)
RegionIDs ==
    UNION {{R.Properties.ID, R.Properties.ISO1A2, R.Properties.ISO1A3,
            R.Properties.ISO1N3, R.Properties.M49, R.Properties.Wikidata,
            R.Properties.EmojiFlag, R.Properties.CCTLD, R.Properties.NameEn}
           \cup {R.Properties.Aliases[i] : i \in 1..Len(R.Properties.Aliases)}
           : R \in Regions}

QueryIDs ==
    RegionIDs \cup {ToUpper(id) : id \in RegionIDs}
              \cup {ToLower(id) : id \in RegionIDs}
              \cup {"", "the", "ZZ", "zz", "united-states", "-", "of-the"}

\* <<lng, lat>>
QueryPoints == {<<5, 1>>, <<2, 2>>, <<7, 0>>, <<7, 4>>, <<9, 9>>}

QueryLevels == {"", "territory", "country", "union", "bogus"}

QueryMaxLevels == {"", "territory", "union", "world", "bogus"}

QueryProps == {"", "iso1A2", "aliases"}

QueryOpts ==
    {NilOpts} \cup {Opts(l, m, w) : l \in QueryLevels, m \in QueryMaxLevels,
                                    w \in QueryProps}

Queries ==
    {StringQuery(id) : id \in {"FR"}}
        \cup {CoordQuery(pt) : pt \in QueryPoints} \cup {CoordQuery(<<5>>)}

NoCall ==
    [op |-> "none", id |-> "", lat |-> 0, lng |-> 0, query |-> StringQuery(""),
     opts |-> NilOpts]

(***************************************************************************)
(* The coder: load, then queries                                           *)
(***************************************************************************)
Init ==
    /\ collection \in Collections
    /\ features = <<>>
    /\ featuresByCode = <<>>
    /\ pc = "load"
    /\ call = NoCall
    /\ ret = 0
    /\ canonIn = ""
    /\ canonOut = <<>>
    /\ UpdateIdle /\ ServerIdle /\ FeedIdle

\* one iteration of the loop of NewCountryCoder over collection.Features
LoadFeature ==
    /\ pc = "load"
    /\ Len(features) < Len(collection)
    /\ LET f == Len(features) + 1
           feature == NewFeature(collection[f])
       IN /\ features' = Append(features, feature)
          /\ featuresByCode' = cacheFeatureByIDs(featuresByCode, feature, f)
    /\ UNCHANGED <<collection, pc, call, ret, canonIn, canonOut>>
    /\ UNCHANGED <<updateVars, serverVars, feedVars>>

\* NewCountryCoder returns cc
ReturnCoder ==
    /\ pc = "load"
    /\ Len(features) = Len(collection)
    /\ pc' = "ready"
    /\ UNCHANGED <<collection, features, featuresByCode, call, ret, canonIn, canonOut>>
    /\ UNCHANGED <<updateVars, serverVars, feedVars>>

\* FeatureForID storing a miss in the index
CallFeatureForIDCaching ==
    /\ pc = "ready"
    /\ \E id \in QueryIDs :
          /\ call' = [NoCall EXCEPT !.op = "FeatureForID", !.id = id]
          /\ ret' = FeatureForID(id)
          /\ featuresByCode' =
                IF FeatureForID(id) = 0 /\ Len(features) > 0
                THEN [k \in DOMAIN featuresByCode \cup {id} |->
                         IF k = id THEN 1 ELSE featuresByCode[k]]
                ELSE featuresByCode
    /\ pc' = "called"
    /\ UNCHANGED <<collection, features, canonIn, canonOut>>
    /\ UNCHANGED <<updateVars, serverVars, feedVars>>

CallFeatureForID ==
    /\ pc = "ready"
    /\ \E id \in QueryIDs :
          /\ call' = [NoCall EXCEPT !.op = "FeatureForID", !.id = id]
          /\ ret' = FeatureForID(id)
    /\ pc' = "called"
    /\ UNCHANGED <<collection, features, featuresByCode, canonIn, canonOut>>
    /\ UNCHANGED <<updateVars, serverVars, feedVars>>

CallSmallestFeature ==
    /\ pc = "ready"
    /\ \E pt \in QueryPoints :
          /\ call' = [NoCall EXCEPT !.op = "SmallestFeature",
                                    !.lat = pt[2], !.lng = pt[1]]
          /\ ret' = SmallestFeature(pt[2], pt[1])
    /\ pc' = "called"
    /\ UNCHANGED <<collection, features, featuresByCode, canonIn, canonOut>>
    /\ UNCHANGED <<updateVars, serverVars, feedVars>>

CallCountryFeature ==
    /\ pc = "ready"
    /\ \E pt \in QueryPoints :
          /\ call' = [NoCall EXCEPT !.op = "countryFeature",
                                    !.lat = pt[2], !.lng = pt[1]]
          /\ ret' = countryFeature(pt[2], pt[1])
    /\ pc' = "called"
    /\ UNCHANGED <<collection, features, featuresByCode, canonIn, canonOut>>
    /\ UNCHANGED <<updateVars, serverVars, feedVars>>

CallFeature ==
    /\ pc = "ready"
    /\ \E query \in Queries, opts \in QueryOpts :
          /\ call' = [NoCall EXCEPT !.op = "Feature", !.query = query,
                                    !.opts = opts]
          /\ ret' = Feature(query, opts)
    /\ pc' = "called"
    /\ UNCHANGED <<collection, features, featuresByCode, canonIn, canonOut>>
    /\ UNCHANGED <<updateVars, serverVars, feedVars>>

CallISO1A2Code ==
    /\ pc = "ready"
    /\ \E pt \in QueryPoints :
          /\ call' = [NoCall EXCEPT !.op = "ISO1A2Code",
                                    !.lat = pt[2], !.lng = pt[1]]
          /\ ret' = ISO1A2Code(pt[2], pt[1])
    /\ pc' = "called"
    /\ UNCHANGED <<collection, features, featuresByCode, canonIn, canonOut>>
    /\ UNCHANGED <<updateVars, serverVars, feedVars>>

CallNameEn ==
    /\ pc = "ready"
    /\ \E pt \in QueryPoints :
          /\ call' = [NoCall EXCEPT !.op = "NameEn", !.lat = pt[2], !.lng = pt[1]]
          /\ ret' = NameEn(pt[2], pt[1])
    /\ pc' = "called"
    /\ UNCHANGED <<collection, features, featuresByCode, canonIn, canonOut>>
    /\ UNCHANGED <<updateVars, serverVars, feedVars>>

CallNameEnByCode ==
    /\ pc = "ready"
    /\ \E code \in QueryIDs :
          /\ call' = [NoCall EXCEPT !.op = "NameEnByCode", !.id = code]
          /\ ret' = NameEnByCode(code)
    /\ pc' = "called"
    /\ UNCHANGED <<collection, features, featuresByCode, canonIn, canonOut>>
    /\ UNCHANGED <<updateVars, serverVars, feedVars>>

CallCodeByLocation ==
    /\ pc = "ready"
    /\ \E pt \in QueryPoints :
          /\ call' = [NoCall EXCEPT !.op = "CodeByLocation",
                                    !.lat = pt[2], !.lng = pt[1]]
          /\ ret' = CodeByLocation(pt[2], pt[1])
    /\ pc' = "called"
    /\ UNCHANGED <<collection, features, featuresByCode, canonIn, canonOut>>
    /\ UNCHANGED <<updateVars, serverVars, feedVars>>

\* the caller takes the result; the coder is ready for the next query
Return ==
    /\ pc = "called"
    /\ pc' = "ready"
    /\ call' = NoCall
    /\ ret' = 0
    /\ UNCHANGED <<collection, features, featuresByCode, canonIn, canonOut>>
    /\ UNCHANGED <<updateVars, serverVars, feedVars>>

Next ==
    \/ LoadFeature
    \/ ReturnCoder
    \/ CallFeatureForID
    \/ CallSmallestFeature
    \/ CallCountryFeature
    \/ CallFeature
    \/ CallISO1A2Code
    \/ CallNameEn
    \/ CallNameEnByCode
    \/ CallCodeByLocation
    \/ Return

Spec == Init /\ [][Next]_vars

(***************************************************************************)
(* canonicalID on its own: applied to an input, then to its own result     *)
(***************************************************************************)
InitCanon ==
    /\ canonIn \in CanonInputs
    /\ canonOut = <<>>
    /\ pc = "canon"
    /\ collection = <<>>
    /\ features = <<>>
    /\ featuresByCode = <<>>
    /\ call = NoCall
    /\ ret = 0
    /\ UpdateIdle /\ ServerIdle /\ FeedIdle

Canonicalize ==
    /\ pc = "canon"
    /\ canonOut = <<>>
    /\ canonOut' = <<canonicalID(canonIn)>>
    /\ UNCHANGED <<collection, features, featuresByCode, pc, call, ret, canonIn>>
    /\ UNCHANGED <<updateVars, serverVars, feedVars>>

CanonicalizeAgain ==
    /\ pc = "canon"
    /\ Len(canonOut) = 1
    /\ canonOut' = Append(canonOut, canonicalID(canonOut[1]))
    /\ UNCHANGED <<collection, features, featuresByCode, pc, call, ret, canonIn>>
    /\ UNCHANGED <<updateVars, serverVars, feedVars>>

NextCanon == Canonicalize \/ CanonicalizeAgain

SpecCanon == InitCanon /\ [][NextCanon]_vars

(***************************************************************************)
(* Vocabulary of the properties below                                      *)
(***************************************************************************)
\* the effective options of a Feature call (defaults of Feature and featureForLoc)
TargetLevel ==
    IF call.opts.nil \/ call.opts.Level = "" THEN "country" ELSE call.opts.Level

MaxLevel ==
    IF call.opts.nil \/ call.opts.MaxLevel = "" THEN "world" ELSE call.opts.MaxLevel

WithProp == IF call.opts.nil THEN "" ELSE call.opts.WithProp

\* a Feature call by coordinates has returned
LeveledLookup ==
    /\ pc = "called"
    /\ call.op = "Feature"
    /\ call.query.t = "[]float64"
    /\ Len(call.query.v) >= 2

LevelOf(f) == features[f].Properties["level"].v

GroupsOf(f) == features[f].Properties["groups"].v

AliasesOf(f) == features[f].Properties["aliases"].v

\* the features whose Polygon or MultiPolygon geometry contains pt
Containing(pt) ==
    {f \in 1..Len(features) :
        LET g == features[f].Geometry
        IN \/ g.kind = "Polygon" /\ PolygonContains(g.polygons[1], pt)
           \/ g.kind = "MultiPolygon" /\ MultiPolygonContains(g.polygons, pt)}

Lowest(S) == CHOOSE f \in S : \A g \in S : f <= g

\* region f qualifies for the request: level in range and required property carried
Qualifies(f) ==
    /\ f # 0
    /\ \/ LevelOf(f) = TargetLevel
       \/ /\ levelIndex(LevelOf(f)) > levelIndex(TargetLevel)
          /\ levelIndex(LevelOf(f)) <= levelIndex(MaxLevel)
    /\ WithProp = "" \/ hasProperty(f, WithProp)

\* the identifying values of feature f that the index holds a key for
Registered(f, prop) ==
    /\ features[f].Properties[prop].v # ""
    /\ canonicalID(features[f].Properties[prop].v) \in DOMAIN featuresByCode

(***************************************************************************)
(* C1: the region a leveled lookup by coordinates returns has a level that *)
(* is neither more granular than the target level nor coarser than the     *)
(* max level, the target level "country" included (stated for requests    *)
(* whose levels are in the rank list, the max level not more granular than *)
(* the target level).                                                      *)
(***************************************************************************)
C1_LevelWithinRange ==
    (/\ LeveledLookup
     /\ levelIndex(TargetLevel) # -1
     /\ levelIndex(MaxLevel) >= levelIndex(TargetLevel)
     /\ ret # 0) =>
        /\ levelIndex(LevelOf(ret)) >= levelIndex(TargetLevel)
        /\ levelIndex(LevelOf(ret)) <= levelIndex(MaxLevel)

(***************************************************************************)
(* C2: when the smallest region containing the point does not qualify, the *)
(* leveled lookup returns the first group of its groups list that resolves *)
(* to a qualifying indexed region, and absent only when none does          *)
(* (stated for the requests that do not take the country fast path).       *)
(***************************************************************************)
C2_FirstQualifyingGroup ==
    LET pt == <<call.query.v[1], call.query.v[2]>>
        S == Lowest(Containing(pt))
        hits == {i \in 1..Len(GroupsOf(S)) : Qualifies(FeatureForID(GroupsOf(S)[i]))}
    IN (/\ LeveledLookup
        /\ TargetLevel # "country"
        /\ levelIndex(TargetLevel) # -1
        /\ levelIndex(MaxLevel) >= levelIndex(TargetLevel)
        /\ Containing(pt) # {}
        /\ ~Qualifies(S))
       => ret = IF hits = {} THEN 0 ELSE FeatureForID(GroupsOf(S)[Lowest(hits)])

(***************************************************************************)
(* C3: a leveled lookup by coordinates returns absent whenever the target  *)
(* level or the max level is not in the level-rank list, or the max level  *)
(* is more granular than the target level.                                 *)
(***************************************************************************)
C3_InvalidLevelsAbsent ==
    (/\ LeveledLookup
     /\ \/ levelIndex(TargetLevel) = -1
        \/ levelIndex(MaxLevel) = -1
        \/ levelIndex(MaxLevel) < levelIndex(TargetLevel))
    => ret = 0

C5_AliasResolves ==
    (/\ pc = "called"
     /\ call.op = "FeatureForID"
     /\ call.id # ""
     /\ \E f \in 1..Len(features) :
           \E i \in 1..Len(AliasesOf(f)) : AliasesOf(f)[i] = call.id)
    => ret # 0

(***************************************************************************)
(* C6: identifier lookup is case-insensitive: the all-lower-case and the   *)
(* all-upper-case form of every ISO alpha-2 code or English name a region  *)
(* is registered under return the region registered under it.              *)
(***************************************************************************)
C6_CaseInsensitiveLookup ==
    (pc = "called" /\ call.op = "FeatureForID") =>
        \A f \in 1..Len(features) : \A prop \in {"iso1A2", "nameEn"} :
            LET v == features[f].Properties[prop].v
            IN (Registered(f, prop) /\ call.id \in {ToLower(v), ToUpper(v)})
               => ret = featuresByCode[canonicalID(v)]

(***************************************************************************)
(* C7: canonicalID strips the stop words whatever their letter case and    *)
(* the listed punctuation: "The United States", "united-states" and        *)
(* "UnitedStates" get the same key.                                        *)
(***************************************************************************)
C7_UnitedStatesSameKey ==
    (/\ pc = "canon"
     /\ canonIn \in {"The United States", "united-states", "UnitedStates"}
     /\ Len(canonOut) >= 1)
    => canonOut[1] = "UNITEDSTATES"

(***************************************************************************)
(* C8: canonicalID is idempotent: applied to its own result it returns     *)
(* that result.                                                            *)
(***************************************************************************)
C8_CanonicalIDIdempotent ==
    (pc = "canon" /\ Len(canonOut) = 2) => canonOut[2] = canonOut[1]

\* stripping the hyphen leaves a result that spells a stop word in upper case
C8_Witness ==
    /\ pc = "canon"
    /\ canonIn = "d-e"
    /\ canonOut = <<"DE", "DE">>

(***************************************************************************)
(* C9: FeatureForID of a registered identifying value of a feature returns *)
(* a region that has an identifying property of the same canonical form.   *)
(***************************************************************************)
C9_RegisteredIDResolves ==
    (/\ pc = "called"
     /\ call.op = "FeatureForID"
     /\ \E f \in 1..Len(features) : \E i \in 1..Len(IDProps) :
           /\ features[f].Properties[IDProps[i]].v = call.id
           /\ Registered(f, IDProps[i]))
    => /\ ret # 0
       /\ \E i \in 1..Len(IDProps) :
             canonicalID(features[ret].Properties[IDProps[i]].v)
                = canonicalID(call.id)

\* a name with a lower-case letter is looked up and found; a second feature of
\* the same name was loaded later and is the one returned
C9_Witness ==
    /\ pc = "called"
    /\ call.op = "FeatureForID"
    /\ call.id = "France"
    /\ Len(features) = 2
    /\ features[1].Properties["nameEn"].v = "France"
    /\ ret = 2

(***************************************************************************)
(* C10: countryFeature returns, for the smallest region S containing the   *)
(* point, the region indexed under S's country when that is non-empty,     *)
(* else the region indexed under S's iso1A2 when that is non-empty, else S;*)
(* and absent when no region contains the point.                           *)
(***************************************************************************)
C10_CountryFastPath ==
    (pc = "called" /\ call.op = "countryFeature") =>
        LET hits == Containing(<<call.lng, call.lat>>)
            S == Lowest(hits)
            country == features[S].Properties["country"].v
            iso1A2 == features[S].Properties["iso1A2"].v
        IN IF hits = {} THEN ret = 0
           ELSE IF country # "" THEN ret = MapLookup(canonicalID(country))
           ELSE IF iso1A2 # "" THEN ret = MapLookup(canonicalID(iso1A2))
           ELSE ret = S

\* the smallest region carries a country reference and an iso1A2 of its own, and
\* the country it refers to is returned
C10_Witness ==
    /\ pc = "called"
    /\ call.op = "countryFeature"
    /\ Containing(<<call.lng, call.lat>>) # {}
    /\ LET S == Lowest(Containing(<<call.lng, call.lat>>))
       IN /\ features[S].Properties["country"].v = "FR"
          /\ features[S].Properties["iso1A2"].v = "FX"
          /\ ret # 0
          /\ ret # S
          /\ features[ret].Properties["id"].v = "FR"

(***************************************************************************)
(* Vocabulary of the properties on the input geometry                      *)
(***************************************************************************)
\* the polygons (sequences of rings) of the raw geometry of input feature f
RawPolygons(f) ==
    LET g == collection[f].Geometry
    IN IF g.type = "Polygon" THEN <<g.coordinates>>
       ELSE IF g.type = "MultiPolygon" THEN g.coordinates
       ELSE <<>>

\* every point of the raw geometry of input feature f is a pair of numbers
WellFormed(f) ==
    \A i \in 1..Len(RawPolygons(f)) : \A j \in 1..Len(RawPolygons(f)[i]) :
        /\ Len(RawPolygons(f)[i][j]) > 0
        /\ \A k \in 1..Len(RawPolygons(f)[i][j]) :
              ValidPoint(RawPolygons(f)[i][j][k])

RawRing(ringArray) ==
    [k \in 1..Len(ringArray) |-> <<ringArray[k][1].v, ringArray[k][2].v>>]

\* pt lies inside the first ring of a raw polygon and inside one of its later rings
InHole(rawPolygon, pt) ==
    /\ RingContains(RawRing(rawPolygon[1]), pt)
    /\ \E j \in 2..Len(rawPolygon) : RingContains(RawRing(rawPolygon[j]), pt)

\* pt lies inside the first ring of a raw polygon and inside none of its later rings
InSolid(rawPolygon, pt) ==
    /\ RingContains(RawRing(rawPolygon[1]), pt)
    /\ \A j \in 2..Len(rawPolygon) : ~RingContains(RawRing(rawPolygon[j]), pt)

PointQuery(op) == pc = "called" /\ call.op = op

CallPoint == <<call.lng, call.lat>>

(***************************************************************************)
(* C11 as claimed: for a point no region contains, ISO1A2Code and          *)
(* CodeByLocation return the empty string.                                 *)
(***************************************************************************)
C11_NoRegionEmptyCode ==
    (/\ pc = "called"
     /\ call.op \in {"ISO1A2Code", "CodeByLocation"}
     /\ Containing(CallPoint) = {})
    => ret = ""

(***************************************************************************)
(* C11 amended: for a point no region contains, ISO1A2Code returns the     *)
(* empty string and CodeByLocation returns "??".                           *)
(***************************************************************************)
C11_NoRegionCode ==
    (/\ pc = "called"
     /\ call.op \in {"ISO1A2Code", "CodeByLocation"}
     /\ Containing(CallPoint) = {})
    => ret = IF call.op = "ISO1A2Code" THEN "" ELSE "??"

\* CodeByLocation on a point outside every polygon of a loaded catalog
C11_Witness ==
    /\ PointQuery("CodeByLocation")
    /\ Len(features) = 2
    /\ \E f \in 1..2 : features[f].Geometry.kind = "Polygon"
    /\ Containing(CallPoint) = {}
    /\ ret = "??"

(***************************************************************************)
(* C12: for a code that resolves to no indexed region, NameEnByCode        *)
(* returns the code in upper case.                                         *)
(***************************************************************************)
C12_UnknownCodeUpperCased ==
    (/\ pc = "called"
     /\ call.op = "NameEnByCode"
     /\ canonicalID(call.id) \notin DOMAIN featuresByCode)
    => ret = ToUpper(call.id)

\* the unknown code zz on a catalog that holds regions
C12_Witness ==
    /\ pc = "called"
    /\ call.op = "NameEnByCode"
    /\ call.id = "zz"
    /\ Len(features) = 2
    /\ DOMAIN featuresByCode # {}
    /\ ret = "ZZ"

(***************************************************************************)
(* C13: a feature SmallestFeature returns has, when its input geometry is  *)
(* well formed, a polygon whose outer ring contains the point and none of  *)
(* whose hole rings does: a point inside an outer ring but inside a hole   *)
(* of that polygon is not contained by it.                                 *)
(***************************************************************************)
C13_HoleSubtracted ==
    (/\ PointQuery("SmallestFeature")
     /\ ret # 0
     /\ WellFormed(ret))
    => \E i \in 1..Len(RawPolygons(ret)) : InSolid(RawPolygons(ret)[i], CallPoint)

\* the point is in a hole of the first feature; the second feature is returned
C13_Witness ==
    /\ PointQuery("SmallestFeature")
    /\ Len(features) = 2
    /\ WellFormed(1)
    /\ RawPolygons(1) # <<>>
    /\ InHole(RawPolygons(1)[1], CallPoint)
    /\ ret = 2

(***************************************************************************)
(* C14: SmallestFeature never returns a feature whose geometry is absent   *)
(* or is a Point.                                                          *)
(***************************************************************************)
C14_NoPointOrNilGeometry ==
    (PointQuery("SmallestFeature") /\ ret # 0) =>
        /\ collection[ret].Geometry.type \notin {"null", "Point"}
        /\ features[ret].Geometry.kind \notin {"nil", "Point"}

\* the first feature is a Point at the very point asked for; the second is returned
C14_Witness ==
    /\ PointQuery("SmallestFeature")
    /\ Len(features) = 2
    /\ features[1].Geometry.kind = "Point"
    /\ features[1].Geometry.point = CallPoint
    /\ ret = 2

(***************************************************************************)
(* C15: after load the catalog list has one entry per input feature, in    *)
(* input order, and every feature with a non-empty id is resolvable by     *)
(* FeatureForID, whatever its geometry.                                    *)
(***************************************************************************)
C15_LoadKeepsEveryFeature ==
    /\ pc \in {"ready", "called"} =>
          /\ Len(features) = Len(collection)
          /\ \A f \in 1..Len(features) :
                features[f].Properties["id"].v = collection[f].Properties.ID
    /\ (/\ pc = "called"
        /\ call.op = "FeatureForID"
        /\ call.id # ""
        /\ \E f \in 1..Len(collection) : collection[f].Properties.ID = call.id)
       => ret # 0

IsoOf(f) == IF f = 0 THEN "" ELSE features[f].Properties["iso1A2"].v

\* pt is inside the polygon of exactly one feature, which is at level country,
\* has an ISO alpha-2 code and no country reference
SingleCountry(pt) ==
    /\ Cardinality(Containing(pt)) = 1
    /\ \A f \in Containing(pt) :
          /\ LevelOf(f) = "country"
          /\ IsoOf(f) # ""
          /\ features[f].Properties["country"].v = ""

\* the leveled lookup Feature([lng, lat], Level = "country")
CountryLookup(pt) == Feature(CoordQuery(pt), Opts("country", "", ""))

(***************************************************************************)
(* C17 as claimed: for a point inside exactly one feature's polygon, that   *)
(* feature at level country with a non-empty ISO alpha-2 code and no        *)
(* country reference, ISO1A2Code equals the iso1A2 property of the region   *)
(* returned by Feature([lng, lat], Level = "country").                      *)
(***************************************************************************)
C17_FastPathAgrees ==
    (PointQuery("ISO1A2Code") /\ SingleCountry(CallPoint))
    => ret = IsoOf(CountryLookup(CallPoint))

(***************************************************************************)
(* C17 amended: the same equality, for the catalogs in which the region     *)
(* the identifier index holds under that feature's code, if any, has a      *)
(* non-empty iso1A2 property.                                               *)
(***************************************************************************)
C17_FastPathAgreesOnIsoRegions ==
    (/\ PointQuery("ISO1A2Code")
     /\ SingleCountry(CallPoint)
     /\ \A f \in Containing(CallPoint) :
           FeatureForID(IsoOf(f)) = 0 \/ IsoOf(FeatureForID(IsoOf(f))) # "")
    => ret = IsoOf(CountryLookup(CallPoint))

\* a point of one country, among two loaded features, with the fast path taken
C17_Witness ==
    /\ PointQuery("ISO1A2Code")
    /\ Len(features) = 2
    /\ SingleCountry(CallPoint)
    /\ \A f \in Containing(CallPoint) : FeatureForID(IsoOf(f)) = f
    /\ CountryLookup(CallPoint) \in Containing(CallPoint)
    /\ ret = "FR"

(***************************************************************************)
(* C18: for an input that starts with '.', canonicalID returns the input   *)
(* upper-cased, character by character, with no character removed.         *)
(***************************************************************************)
C18_DotPrefixPassthrough ==
    (pc = "canon" /\ Len(canonOut) >= 1 /\ HasPrefix(canonIn, "."))
    => /\ Len(canonOut[1]) = Len(canonIn)
       /\ \A i \in 1..Len(canonIn) :
             Char(canonOut[1], i) = ToUpperChar(Char(canonIn, i))

\* a dot followed by a stop word and by punctuation
C18_Witness ==
    /\ pc = "canon"
    /\ canonIn = ".de-"
    /\ Len(canonOut) >= 1
    /\ canonOut[1] = ".DE-"

(***************************************************************************)
(* C19: the identifier index never holds the empty key, and FeatureForID   *)
(* returns no feature for the empty string and for every input whose       *)
(* canonical form is empty.                                                *)
(***************************************************************************)
C19_NoEmptyKey ==
    /\ "" \notin DOMAIN featuresByCode
    /\ (pc = "called" /\ call.op = "FeatureForID" /\ canonicalID(call.id) = "")
       => ret = 0

\* a feature whose id has an empty canonical form is loaded and asked for by a
\* stop word
C19_Witness ==
    /\ pc = "called"
    /\ call.op = "FeatureForID"
    /\ call.id = "the"
    /\ \E f \in 1..Len(features) :
          canonicalID(features[f].Properties["id"].v) = ""
    /\ ret = 0

(***************************************************************************)
(* C20: a value CodeByLocation returns for a point that some region's      *)
(* geometry contains is the lower-cased ISO alpha-2 code of a catalog      *)
(* region.                                                                 *)
(***************************************************************************)
C20_CodeIsIsoOfRegion ==
    (PointQuery("CodeByLocation") /\ Containing(CallPoint) # {})
    => \E f \in 1..Len(features) : IsoOf(f) # "" /\ ret = ToLower(IsoOf(f))

(***************************************************************************)
(* Vocabulary of the properties on the walk of the leveled lookup          *)
(***************************************************************************)
\* the smallest region containing the point of a Feature call by coordinates
Smallest == SmallestFeature(call.query.v[2], call.query.v[1])

\* the level of region f is the target level, or coarser and within the max level
InRange(f) ==
    \/ LevelOf(f) = TargetLevel
    \/ /\ levelIndex(LevelOf(f)) > levelIndex(TargetLevel)
       /\ levelIndex(LevelOf(f)) <= levelIndex(MaxLevel)

\* region f carries property prop: a non-empty string, or a non-nil value of
\* another type (a slice field missing from the input decodes to the nil slice)
Carries(f, prop) ==
    /\ prop \in DOMAIN features[f].Properties
    /\ IF IsString(features[f].Properties[prop])
       THEN features[f].Properties[prop].v # ""
       ELSE features[f].Properties[prop].v # <<>>

(***************************************************************************)
(* C24 as claimed: the leveled lookup returns the smallest region           *)
(* containing the point itself only when its own level equals the target    *)
(* level.                                                                   *)
(***************************************************************************)
C24_SmallestOnlyAtTargetLevel ==
    (LeveledLookup /\ ret # 0 /\ ret = Smallest) => LevelOf(ret) = TargetLevel

(***************************************************************************)
(* C24 amended: the leveled lookup returns the smallest region containing   *)
(* the point itself only when it passes the required-property test and      *)
(* either its level equals the target level or is coarser than the target   *)
(* and no coarser than the max level, or the target is country and the      *)
(* country fast path hands the region back.                                 *)
(***************************************************************************)
C24_SmallestInRangeOrFastPath ==
    (LeveledLookup /\ ret # 0 /\ ret = Smallest) =>
        /\ WithProp = "" \/ hasProperty(ret, WithProp)
        /\ \/ InRange(ret)
           \/ /\ TargetLevel = "country"
              /\ countryFeature(call.query.v[2], call.query.v[1]) = ret

\* a country is returned itself for the target level territory
C24_Witness ==
    /\ LeveledLookup
    /\ TargetLevel = "territory"
    /\ MaxLevel = "union"
    /\ ret # 0
    /\ ret = Smallest
    /\ LevelOf(ret) = "country"

(***************************************************************************)
(* C25: a region returned by a leveled lookup made with a non-empty        *)
(* required property carries that property: a string property is           *)
(* non-empty, any other property is present and non-nil.                   *)
(***************************************************************************)
C25_ReturnedRegionCarriesProperty ==
    (LeveledLookup /\ WithProp # "" /\ ret # 0) => Carries(ret, WithProp)

(***************************************************************************)
(* C26: for every Polygon geometry that load accepts, the outer boundary   *)
(* is the first ring of the input coordinates and every other kept ring    *)
(* is a later ring of the input.                                           *)
(***************************************************************************)
C26_OuterRingIsFirstInputRing ==
    \A f \in 1..Len(features) :
        (collection[f].Geometry.type = "Polygon"
         /\ features[f].Geometry.kind = "Polygon")
        => features[f].Geometry.polygons[1][1]
              = coordsToRing(collection[f].Geometry.coordinates[1])

(***************************************************************************)
(* C29: round trip of stored codes: for a point inside the polygon of a    *)
(* country region with a two-letter ISO code and a non-empty English name, *)
(* no other region containing the point, NameEnByCode of the code that     *)
(* CodeByLocation returns is that name.                                    *)
(***************************************************************************)
C29_CodeRoundTrip ==
    (/\ PointQuery("CodeByLocation")
     /\ SingleCountry(CallPoint)
     /\ \A f \in Containing(CallPoint) :
           Len(IsoOf(f)) = 2 /\ features[f].Properties["nameEn"].v # "")
    => \A f \in Containing(CallPoint) :
           NameEnByCode(ret) = features[f].Properties["nameEn"].v

(***************************************************************************)
(* The self-update check: main, startPeriodicTasks, checkAndPerformUpdate, *)
(* performUpdate                                                           *)
(***************************************************************************)
MaxChecks == 2     \* ticks of the 24 h update ticker

currentVersion == "0.5.5"

Whitespace == {" ", "\n"}

RECURSIVE TrimLeft(_)
TrimLeft(s) ==
    IF Len(s) > 0 /\ Char(s, 1) \in Whitespace
    THEN TrimLeft(SubSeq(s, 2, Len(s)))
    ELSE s

RECURSIVE TrimRight(_)
TrimRight(s) ==
    IF Len(s) > 0 /\ Char(s, Len(s)) \in Whitespace
    THEN TrimRight(SubSeq(s, 1, Len(s) - 1))
    ELSE s

\* strings.TrimSpace
TrimSpace(s) == TrimRight(TrimLeft(s))

\* the byte of a character of a version string
ByteOf(c) ==
    IF c = "." THEN 46
    ELSE 47 + (CHOOSE i \in 1..Len(Digits) : Char(Digits, i) = c)

\* a > b for Go strings: byte-wise lexicographic order
RECURSIVE StringGreater(_, _)
StringGreater(a, b) ==
    IF a = "" THEN FALSE
    ELSE IF b = "" THEN TRUE
    ELSE IF Char(a, 1) = Char(b, 1)
         THEN StringGreater(SubSeq(a, 2, Len(a)), SubSeq(b, 2, Len(b)))
         ELSE ByteOf(Char(a, 1)) > ByteOf(Char(b, 1))

\* what the GET of the VERSION file yields: an error, or the body of a 200 reply
FetchError == [err |-> TRUE, body |-> ""]

RemoteBodies ==
    {"0.5.4", "0.5.5", "0.5.6\n", "0.5.10", "0.10.0", "1.0.0\n", "0.6", " 0.5.5\n"}

RemoteResponses ==
    {FetchError} \cup {[err |-> FALSE, body |-> b] : b \in RemoteBodies}

\* fetchRemoteVersion on a response: the trimmed body
fetchRemoteVersion(response) ==
    [err |-> response.err,
     version |-> IF response.err THEN "" ELSE TrimSpace(response.body)]

\* the step of performUpdate that fails, "none" when every step succeeds
FailurePoints == {"download", "copy", "binary", "replace", "restart", "none"}

\* performUpdate: the steps entered and whether the process exits
performUpdate(goos, failAt) ==
    IF failAt = "download" THEN [steps |-> <<"download">>, exits |-> FALSE]
    ELSE IF failAt = "copy" THEN [steps |-> <<"download", "copy">>, exits |-> FALSE]
    ELSE IF failAt = "binary" THEN [steps |-> <<"download", "copy">>, exits |-> FALSE]
    ELSE IF goos = "windows" THEN
        [steps |-> <<"download", "copy", "replace">>, exits |-> failAt # "replace"]
    ELSE IF failAt = "replace" THEN
        [steps |-> <<"download", "copy", "replace">>, exits |-> FALSE]
    ELSE [steps |-> <<"download", "copy", "replace", "restart">>,
          exits |-> failAt # "restart"]

\* checkAndPerformUpdate(autoUpdate) on a response of the VERSION request
checkAndPerformUpdate(autoUpdate, response, goos, failAt) ==
    LET remote == fetchRemoteVersion(response)
        update == performUpdate(goos, failAt)
    IN IF ~autoUpdate THEN
           [fetched |-> FALSE, err |-> FALSE, version |-> "", started |-> FALSE,
            steps |-> <<>>, exits |-> FALSE]
       ELSE IF remote.err THEN
           [fetched |-> TRUE, err |-> TRUE, version |-> "", started |-> FALSE,
            steps |-> <<>>, exits |-> FALSE]
       ELSE IF StringGreater(remote.version, currentVersion) THEN
           [fetched |-> TRUE, err |-> FALSE, version |-> remote.version,
            started |-> TRUE, steps |-> update.steps, exits |-> update.exits]
       ELSE
           [fetched |-> TRUE, err |-> FALSE, version |-> remote.version,
            started |-> FALSE, steps |-> <<>>, exits |-> FALSE]

NoCheck ==
    [n |-> 0, by |-> "none", autoUpdate |-> FALSE, fetched |-> FALSE,
     err |-> FALSE, version |-> "", started |-> FALSE]

CommandLines ==
    [autoUpdate : BOOLEAN, serviceAction : {"", "install"},
     goos : {"linux", "windows"}]

InitUpdate ==
    /\ flags \in CommandLines
    /\ proc = "main"
    /\ lastCheck = NoCheck
    /\ updateLog = <<>>
    /\ CoderIdle /\ call = NoCall /\ ret = 0
    /\ ServerIdle /\ FeedIdle

\* one call of checkAndPerformUpdate by `by`; the process goes on at `next`
Check(by, autoUpdate, next) ==
    \E response \in RemoteResponses, failAt \in FailurePoints :
        LET c == checkAndPerformUpdate(autoUpdate, response, flags.goos, failAt)
        IN /\ lastCheck' = [n |-> lastCheck.n + 1, by |-> by,
                            autoUpdate |-> autoUpdate, fetched |-> c.fetched,
                            err |-> c.err, version |-> c.version,
                            started |-> c.started]
           /\ updateLog' = updateLog \o c.steps
           /\ proc' = IF c.exits THEN "exited" ELSE next

\* main: checkAndPerformUpdate(autoUpdate) when no service action is given
StartupCheck ==
    /\ proc = "main"
    /\ flags.serviceAction = ""
    /\ Check("main", flags.autoUpdate, "starting")
    /\ UNCHANGED <<flags, coderVars, serverVars, feedVars>>

\* main with a service action: the action is carried out and main returns
ServiceCommand ==
    /\ proc = "main"
    /\ flags.serviceAction # ""
    /\ proc' = "exited"
    /\ UNCHANGED <<flags, lastCheck, updateLog, coderVars, serverVars, feedVars>>

\* svc.Run succeeds: Start, run, startPeriodicTasks
RunService ==
    /\ proc = "starting"
    /\ proc' = "service"
    /\ UNCHANGED <<flags, lastCheck, updateLog, coderVars, serverVars, feedVars>>

\* svc.Run fails: the standalone server, which starts no periodic task
RunStandalone ==
    /\ proc = "starting"
    /\ proc' = "standalone"
    /\ UNCHANGED <<flags, lastCheck, updateLog, coderVars, serverVars, feedVars>>

\* a tick of the update ticker: checkAndPerformUpdate(true)
PeriodicUpdateCheck ==
    /\ proc = "service"
    /\ lastCheck.n <= MaxChecks
    /\ Check("periodic", TRUE, "service")
    /\ UNCHANGED <<flags, coderVars, serverVars, feedVars>>

NextUpdate ==
    \/ StartupCheck
    \/ ServiceCommand
    \/ RunService
    \/ RunStandalone
    \/ PeriodicUpdateCheck

SpecUpdate == InitUpdate /\ [][NextUpdate]_vars

(***************************************************************************)
(* Vocabulary of the properties on versions                                *)
(***************************************************************************)
\* the strings between the dots of s
RECURSIVE SplitDots(_, _, _)
SplitDots(s, i, acc) ==
    IF i > Len(s) THEN <<acc>>
    ELSE IF Char(s, i) = "." THEN <<acc>> \o SplitDots(s, i + 1, "")
    ELSE SplitDots(s, i + 1, acc \o Char(s, i))

IsNumber(s) ==
    Len(s) > 0 /\ \A i \in 1..Len(s) : Char(s, i) \in Chars(Digits)

RECURSIVE NumberOf(_)
NumberOf(s) ==
    IF s = "" THEN 0
    ELSE 10 * NumberOf(SubSeq(s, 1, Len(s) - 1)) + ByteOf(Char(s, Len(s))) - 48

\* s is dot-separated numbers
IsVersion(s) ==
    \A i \in 1..Len(SplitDots(s, 1, "")) : IsNumber(SplitDots(s, 1, "")[i])

Component(s, i) ==
    IF i <= Len(SplitDots(s, 1, "")) THEN NumberOf(SplitDots(s, 1, "")[i]) ELSE 0

\* a is higher than b under semantic-version ordering
HigherVersion(a, b) ==
    \E i \in 1..(Len(a) + Len(b)) :
        /\ Component(a, i) > Component(b, i)
        /\ \A j \in 1..(i - 1) : Component(a, j) = Component(b, j)

(***************************************************************************)
(* C21: when the process is started with --auto-update false, no step of   *)
(* a self-update (download, file copy, binary replacement) is ever         *)
(* performed.                                                              *)
(***************************************************************************)
C21_NoUpdateWhenDisabled ==
    (proc # "off" /\ ~flags.autoUpdate) => updateLog = <<>>

(***************************************************************************)
(* C28: with auto-update enabled and the remote version fetched, an update *)
(* is started exactly when the remote version is higher than the running   *)
(* version under semantic-version ordering.                                *)
(***************************************************************************)
C28_UpdateIffHigherVersion ==
    (/\ proc # "off"
     /\ lastCheck.n > 0
     /\ lastCheck.autoUpdate
     /\ lastCheck.fetched /\ ~lastCheck.err
     /\ IsVersion(lastCheck.version))
    => (lastCheck.started <=> HigherVersion(lastCheck.version, currentVersion))

(***************************************************************************)
(* The feed crawler: pullFeed, extractGamesFromPayload                     *)
(*                                                                         *)
(* The remote feed is a table of pages.  The request without a pagination  *)
(* token gets page 1, a request with token k gets page k; next = 0 is the  *)
(* empty pagination token.  The server is free to hand out tokens that     *)
(* lead back to a page already served.  Every request ends: the client     *)
(* carries a 25 s timeout, and a timeout is a transport error.             *)
(* Payloads are taken as decoded JSON (a sequence of items, an object      *)
(* being one item); the regular-expression fallback for payloads that are  *)
(* not JSON is left out.                                                   *)
(***************************************************************************)
MaxFeedPages == 2   \* pages of the remote feed
MaxPages == 50      \* page limit of one pullFeed call

Item(mode, token, challenge, id) ==
    [GameMode |-> mode, GameToken |-> token, ChallengeToken |-> challenge,
     GameId |-> id]

RECURSIVE extractGamesFromPayload(_)
extractGamesFromPayload(payload) ==
    IF payload = <<>> THEN [std |-> <<>>, duels |-> <<>>]
    ELSE LET item == Head(payload)
             rest == extractGamesFromPayload(Tail(payload))
             token == IF item.GameToken = "" THEN item.ChallengeToken
                      ELSE item.GameToken
         IN  CASE item.GameMode = "Standard" /\ token # "" ->
                     [rest EXCEPT !.std = <<token>> \o @]
               [] item.GameMode = "Duels" /\ item.GameId # "" ->
                     [rest EXCEPT !.duels = <<item.GameId>> \o @]
               [] OTHER -> rest

\* the games of the entries of one page, in order
RECURSIVE extractEntries(_)
extractEntries(entries) ==
    IF entries = <<>> THEN [std |-> <<>>, duels |-> <<>>]
    ELSE LET first == extractGamesFromPayload(Head(entries))
             rest == extractEntries(Tail(entries))
         IN  [std |-> first.std \o rest.std, duels |-> first.duels \o rest.duels]

PageEntries ==
    { <<>>,
      << <<Item("Standard", "g1", "", "")>> >>,
      << <<Item("Standard", "", "g1", "")>>,
         <<Item("Duels", "", "", "d1"), Item("Standard", "", "", "")>> >> }

PageFailures == {"error", "status", "unreadable", "undecodable"}

FeedPages ==
    [kind : {"ok"}, entries : PageEntries, next : 0..MaxFeedPages]
      \cup [kind : PageFailures, entries : {<<>>}, next : {0}]

Feeds == [1..MaxFeedPages -> FeedPages]

\* the page the server returns for a pagination token
PageFor(token) == feed[IF token = 0 THEN 1 ELSE token]

PageLimitOffByOne(pageCount) == pageCount > MaxPages

PageLimitReached(pageCount) == pageCount >= MaxPages

InitFeed ==
    /\ feed \in Feeds
    /\ pulled = [pc |-> "idle", page |-> 0, pageCount |-> 0,
                 std |-> <<>>, duels |-> <<>>]
    /\ CoderIdle /\ call = NoCall /\ ret = 0
    /\ UpdateIdle /\ ServerIdle

CallPullFeed ==
    /\ feed # <<>>
    /\ pulled.pc = "idle"
    /\ pulled' = [pulled EXCEPT !.pc = "loop"]
    /\ UNCHANGED <<feed, coderVars, updateVars, serverVars>>

\* one iteration of the loop of pullFeed
PullPage ==
    /\ feed # <<>>
    /\ pulled.pc = "loop"
    /\ LET pageCount == pulled.pageCount + 1
           resp == PageFor(pulled.page)
           got == extractEntries(resp.entries)
       IN  IF resp.kind # "ok"
             THEN pulled' = [pulled EXCEPT !.pc = "returned",
                                           !.pageCount = pageCount]
             ELSE pulled' = [pc |-> IF resp.next = 0 \/ PageLimitReached(pageCount)
                                      THEN "returned" ELSE "loop",
                             page |-> IF resp.next = 0 \/ PageLimitReached(pageCount)
                                        THEN pulled.page ELSE resp.next,
                             pageCount |-> pageCount,
                             std |-> pulled.std \o got.std,
                             duels |-> pulled.duels \o got.duels]
    /\ UNCHANGED <<feed, coderVars, updateVars, serverVars>>

NextFeed == CallPullFeed \/ PullPage

SpecFeed == InitFeed /\ [][NextFeed]_vars

\* every started request ends and the loop body runs on
SpecFeedLive == SpecFeed /\ WF_vars(CallPullFeed) /\ WF_vars(PullPage)

\* the token reached from token t after n further requests; the hops are
\* halved to keep the evaluation shallow
TokenAfter[t \in 0..MaxFeedPages, n \in 0..(MaxPages + 1)] ==
    IF n = 0 THEN t
    ELSE IF n = 1 THEN PageFor(t).next
    ELSE TokenAfter[TokenAfter[t, n \div 2], n - (n \div 2)]

\* the page the k-th request of a call is answered with
Served(k) == PageFor(TokenAfter[0, k - 1])

\* the ids of the readable pages among requests a..b, in order
GatheredBetween[a \in 1..(MaxPages + 2), b \in 0..(MaxPages + 1)] ==
    IF a > b THEN [std |-> <<>>, duels |-> <<>>]
    ELSE IF a = b
      THEN IF Served(a).kind = "ok" THEN extractEntries(Served(a).entries)
           ELSE [std |-> <<>>, duels |-> <<>>]
      ELSE LET mid == (a + b) \div 2
               low == GatheredBetween[a, mid]
               high == GatheredBetween[mid + 1, b]
           IN  [std |-> low.std \o high.std, duels |-> low.duels \o high.duels]

Gathered(n) == GatheredBetween[1, n]

\* the first request that ends the call: a failed page, an empty token, or
\* the page limit
Stops(k) ==
    \/ Served(k).kind # "ok"
    \/ Served(k).next = 0
    \/ k = MaxPages

PullFeedBounded ==
    (feed # <<>>) =>
       /\ pulled.pageCount <= MaxPages
       /\ pulled.pc = "returned" =>
            /\ pulled.pageCount >= 1
            /\ Stops(pulled.pageCount)
            /\ \A k \in 1..(pulled.pageCount - 1) : ~Stops(k)
            /\ pulled.std = Gathered(pulled.pageCount).std
            /\ pulled.duels = Gathered(pulled.pageCount).duels

(***************************************************************************)
(* C27: pullFeed always returns; it requests at most 50 pages in one call, *)
(* stops at the first page that fails, carries an empty pagination token   *)
(* or is the 50th, and returns the game ids of exactly the pages it read   *)
(* before it stopped, in order.                                            *)
(***************************************************************************)
C27_PullFeedTerminates ==
    /\ []PullFeedBounded
    /\ <>(pulled.pc = "returned")

\* a feed whose pages all carry a token: the call returned at the page limit
\* with the games of all 50 pages
C27_Witness ==
    /\ feed # <<>>
    /\ pulled.pc = "returned"
    /\ pulled.pageCount = MaxPages
    /\ Served(MaxPages).kind = "ok" /\ Served(MaxPages).next # 0
    /\ Len(pulled.std) = MaxPages

(***************************************************************************)
(* The collection server: apiUpdateCookie, apiCollectNow,                  *)
(* performPeriodicCollection, storeStandard, storeDuels, insertGame        *)
(*                                                                         *)
(* net/http serves every request on its own goroutine and the 6 h ticker   *)
(* runs the periodic collection on another; nothing but the database       *)
(* serialises them.  A collection run is a frame in runs; it advances one  *)
(* database statement or one remote call at a time.  A table is the        *)
(* sequence of its rows and a row is its key columns; no statement of the  *)
(* program updates or deletes a row of games or rounds.  A remote answer   *)
(* is a snapshot of the game, with the guesses played so far, and is       *)
(* well-formed (one round per guess).  A transaction commits whole or      *)
(* fails whole.                                                            *)
(***************************************************************************)
MaxEvents == 2     \* API requests and collector ticks taken in
MaxRounds == 2     \* guesses of a game

Workers == {"w1", "w2"}

Keys == {"k1", "bad"}

Tokens == {"", "c2"}

GameRef(mode, id) == [mode |-> mode, id |-> id]

\* what pullFeed hands to a run: the standard games, then the duels
FeedLists ==
    { <<>>,
      <<GameRef("standard", "g1")>>,
      <<GameRef("standard", "g1"), GameRef("standard", "g1")>>,
      <<GameRef("duels", "d1")>> }

NoRun ==
    [kind |-> "", pc |-> "idle", todo |-> <<>>, existed |-> FALSE,
     fetched |-> 0, count |-> 0, had |-> {}]

NoRequest == [n |-> 0, path |-> "", token |-> "", key |-> "", status |-> 0]

Rows(table) == {table[i] : i \in DOMAIN table}

rowExists(id) == \E row \in Rows(rounds) : row.game_id = id

\* ids of the games with stored rounds
StoredGames == {row.game_id : row \in Rows(rounds)}

authorizedAlways(key) == TRUE

\* the private-key test of the two handlers
authorized(key) == config.IsPublic => key = config.PrivateKey

storeSkipsNever(id) == FALSE

\* storeStandard / storeDuels return at once for a game with stored rounds
storeSkips(id) == rowExists(id)

\* INSERT OR IGNORE INTO games: id is the primary key
insertGame(id, mode) ==
    IF \E row \in Rows(games) : row.id = id THEN games
    ELSE Append(games, [id |-> id, game_type |-> mode])

\* INSERT OR IGNORE INTO rounds for rounds 1..n: (game_id, round_no) is the
\* primary key and game_id references games(id)
RECURSIVE insertRounds(_, _, _)
insertRounds(table, id, n) ==
    IF n = 0 THEN table
    ELSE LET before == insertRounds(table, id, n - 1)
         IN  IF \/ \E row \in Rows(before) : row.game_id = id /\ row.round_no = n
                \/ ~\E row \in Rows(games) : row.id = id
               THEN before
               ELSE Append(before, [game_id |-> id, round_no |-> n])

InitServer ==
    /\ config \in [IsPublic : BOOLEAN, PrivateKey : {"k1"}, NCFA : {"", "c1"}]
    /\ req = NoRequest
    /\ runs = [w \in Workers |-> NoRun]
    /\ games = <<>> /\ rounds = <<>>
    /\ metadata = ""
    /\ reported = 0
    /\ CoderIdle /\ call = NoCall /\ ret = 0
    /\ UpdateIdle /\ FeedIdle

Running == runs # <<>>

TakeIn(path, token, key, status) ==
    /\ Running
    /\ req.n < MaxEvents
    /\ req' = [n |-> req.n + 1, path |-> path, token |-> token, key |-> key,
               status |-> status]

\* a goroutine has no identity: a new run takes the first free frame
FreeWorker(w) ==
    /\ runs[w].pc = "idle"
    /\ w = "w2" => runs["w1"].pc # "idle"

StartRun(w, kind) ==
    runs' = [runs EXCEPT ![w] = [NoRun EXCEPT !.kind = kind, !.pc = "begin",
                                              !.had = StoredGames]]

apiUpdateCookie ==
    \E t \in Tokens, key \in Keys :
       /\ IF t = ""
            THEN TakeIn("/api/update_ncfa", t, key, 400) /\ UNCHANGED config
          ELSE IF ~authorized(key)
            THEN TakeIn("/api/update_ncfa", t, key, 401) /\ UNCHANGED config
          ELSE /\ TakeIn("/api/update_ncfa", t, key, 200)
               /\ config' = [config EXCEPT !.NCFA = t]
       /\ UNCHANGED <<runs, games, rounds, metadata, reported>>
       /\ UNCHANGED <<coderVars, updateVars, feedVars>>

\* the entry of apiCollectNow: the two tests, then the run begins on the
\* goroutine of the request
apiCollectNow ==
    \E key \in Keys :
       /\ IF config.NCFA = ""
            THEN TakeIn("/api/collect_now", "", key, 400) /\ UNCHANGED runs
          ELSE IF ~authorized(key)
            THEN TakeIn("/api/collect_now", "", key, 401) /\ UNCHANGED runs
          ELSE \E w \in Workers :
                 /\ FreeWorker(w)
                 /\ TakeIn("/api/collect_now", "", key, 200)
                 /\ StartRun(w, "api")
       /\ UNCHANGED <<config, games, rounds, metadata, reported>>
       /\ UNCHANGED <<coderVars, updateVars, feedVars>>

\* a tick of the 6 h ticker: the entry of performPeriodicCollection; the
\* ticker goroutine runs one collection at a time
performPeriodicCollection ==
    /\ Running
    /\ \A w \in Workers : runs[w].kind # "periodic"
    /\ IF config.NCFA = ""
         THEN TakeIn("tick", "", "", 0) /\ UNCHANGED runs
         ELSE \E w \in Workers :
                /\ FreeWorker(w)
                /\ TakeIn("tick", "", "", 0)
                /\ StartRun(w, "periodic")
    /\ UNCHANGED <<config, games, rounds, metadata, reported>>
    /\ UNCHANGED <<coderVars, updateVars, feedVars>>

Step(w, frame) ==
    /\ runs' = [runs EXCEPT ![w] = frame]
    /\ UNCHANGED <<config, req>>
    /\ UNCHANGED <<coderVars, updateVars, feedVars>>

\* the calls before the loop.  collectUserProfile stores the profile, or
\* fails and the run goes on; pullFeed hands back the games of the feed.
BeginCollection(w) ==
    /\ Running
    /\ runs[w].pc = "begin"
    /\ \E ok \in BOOLEAN : metadata' = IF ok THEN "nick" ELSE metadata
    /\ \E list \in FeedLists : Step(w, [runs[w] EXCEPT !.pc = "next", !.todo = list])
    /\ UNCHANGED <<games, rounds, reported>>

\* head of the loop over the games: existed := rowExists(...)
NextGame(w) ==
    /\ Running
    /\ runs[w].pc = "next"
    /\ runs[w].todo # <<>>
    /\ Step(w, [runs[w] EXCEPT !.pc = "store",
                               !.existed = rowExists(Head(runs[w].todo).id)])
    /\ UNCHANGED <<games, rounds, metadata, reported>>

\* entry of storeStandard / storeDuels
StoreEntry(w) ==
    /\ Running
    /\ runs[w].pc = "store"
    /\ Step(w, [runs[w] EXCEPT !.pc = IF storeSkips(Head(runs[w].todo).id)
                                        THEN "after" ELSE "fetch"])
    /\ UNCHANGED <<games, rounds, metadata, reported>>

\* the remote call and insertGame: the call fails, or answers with a
\* snapshot of the game and the games row is inserted
StoreFetch(w) ==
    /\ Running
    /\ runs[w].pc = "fetch"
    /\ \/ /\ Step(w, [runs[w] EXCEPT !.pc = "after"])
          /\ UNCHANGED games
       \/ \E n \in 0..MaxRounds :
             /\ Step(w, [runs[w] EXCEPT !.pc = "rounds", !.fetched = n])
             /\ games' = insertGame(Head(runs[w].todo).id, Head(runs[w].todo).mode)
    /\ UNCHANGED <<rounds, metadata, reported>>

\* the transaction that inserts the rounds
StoreRounds(w) ==
    /\ Running
    /\ runs[w].pc = "rounds"
    /\ \E committed \in BOOLEAN :
          rounds' = IF committed
                      THEN insertRounds(rounds, Head(runs[w].todo).id, runs[w].fetched)
                      ELSE rounds
    /\ Step(w, [runs[w] EXCEPT !.pc = "after", !.fetched = 0])
    /\ UNCHANGED <<games, metadata, reported>>

\* if !existed && rowExists(...) { success++ }
CountGame(w) ==
    /\ Running
    /\ runs[w].pc = "after"
    /\ Step(w, [runs[w] EXCEPT
                  !.pc = "next",
                  !.todo = Tail(@),
                  !.existed = FALSE,
                  !.count = IF ~runs[w].existed /\ rowExists(Head(runs[w].todo).id)
                              THEN @ + 1 ELSE @])
    /\ UNCHANGED <<games, rounds, metadata, reported>>

\* the run reports its count: the response of the request, or the log line
Report(w) ==
    /\ Running
    /\ runs[w].pc = "next"
    /\ runs[w].todo = <<>>
    /\ reported' = reported + runs[w].count
    /\ Step(w, NoRun)
    /\ UNCHANGED <<games, rounds, metadata>>

NextServer ==
    \/ apiUpdateCookie
    \/ apiCollectNow
    \/ performPeriodicCollection
    \/ \E w \in Workers :
          \/ BeginCollection(w)
          \/ NextGame(w)
          \/ StoreEntry(w)
          \/ StoreFetch(w)
          \/ StoreRounds(w)
          \/ CountGame(w)
          \/ Report(w)

SpecServer == InitServer /\ [][NextServer]_vars

\* the step takes in an API request
Handles(path) == req'.n # req.n /\ req'.path = path

\* rows of one game
GameRows(id) == SelectSeq(games, LAMBDA row : row.id = id)

RoundRows(id) == SelectSeq(rounds, LAMBDA row : row.game_id = id)

UniqueGames ==
    \A i, j \in DOMAIN games : games[i].id = games[j].id => i = j

UniqueRounds ==
    \A i, j \in DOMAIN rounds :
       (rounds[i].game_id = rounds[j].game_id /\ rounds[i].round_no = rounds[j].round_no)
          => i = j

\* the step is taken by the run in frame w
ActsIn(w) == runs'[w] # runs[w]

(***************************************************************************)
(* C22: in public mode a request to /api/update_ncfa or /api/collect_now   *)
(* whose key is not the private key leaves the configuration, the runs     *)
(* and the tables as they are; and the stored cookie changes only in a     *)
(* step that handles an update_ncfa request with a non-empty token and,    *)
(* in public mode, the private key, and it becomes that token.             *)
(***************************************************************************)
C22_UnauthorizedChangesNothing ==
    [][Running =>
         /\ (/\ Handles("/api/update_ncfa") \/ Handles("/api/collect_now")
             /\ config.IsPublic
             /\ req'.key # config.PrivateKey)
            => UNCHANGED <<config, runs, games, rounds, metadata, reported>>
         /\ (config'.NCFA # config.NCFA)
            => /\ Handles("/api/update_ncfa")
               /\ req'.token # "" /\ config'.NCFA = req'.token
               /\ config.IsPublic => req'.key = config.PrivateKey]_vars

\* a collect_now request with a wrong key was turned away in public mode
\* although a cookie is stored
C22_Witness ==
    /\ Running
    /\ config.IsPublic /\ config.NCFA # ""
    /\ req.path = "/api/collect_now" /\ req.key # config.PrivateKey
    /\ req.status = 401

C30_EachGameCountedOnce ==
    (Running /\ \A w \in Workers : runs[w].pc = "idle")
       => reported = Cardinality(StoredGames)

====
